---- MODULE Spec2Model ----
(***************************************************************************)
(* Token lifecycle and identity resolution of the gin-boilerplate auth     *)
(* core: the use cases Register, Login, Google (federated) login, Refresh, *)
(* Logout and LogoutAll over the users table and the refresh-token table,  *)
(* the admin operations on users and the profile update.                   *)
(*                                                                         *)
(* Strings whose content is computed on (emails) are sequences of          *)
(* character codes; an email is represented by its local part, the domain  *)
(* being the same for all inputs.  Time is in seconds.                     *)
(***************************************************************************)
EXTENDS Integers, Sequences, FiniteSets, TLC

VARIABLES users, tokens, now, nextID, last, issued, nreq, wk

vars == <<users, tokens, now, nextID, last, issued, nreq, wk>>

(***************************************************************************)
(* Bounds of the model                                                     *)
(***************************************************************************)
MaxUsers == 2

MaxTicks == 1

\* requests handled in one run
MaxRequests == 3

(***************************************************************************)
(* Program constants                                                       *)
(***************************************************************************)
AccessExpiry == 900

RefreshExpiry == 604800

RevokeBackdate == 3600

MinPasswordLen == 8

MaxPasswordLen == 128

\* SQL NULL / Go nil of a *string column
NULL == "NULL"

\* NULL in the password column
NullPassword == [alg |-> "NULL", of |-> ""]

\* the nil *entity.User a repository returns for "record not found"
NoUser ==
    [ID |-> 0, Email |-> <<>>, Password |-> NullPassword, Role |-> "", Provider |-> "",
     ProviderID |-> NULL, Avatar |-> NULL, EmailVerified |-> FALSE]

RoleUser == "USER"

RoleAdmin == "ADMIN"

ProviderLocal == "LOCAL"

ProviderGoogle == "GOOGLE"

TokenTypeAccess == "access"

TokenTypeRefresh == "refresh"

SecretKey == "secret"

(***************************************************************************)
(* Inputs                                                                  *)
(***************************************************************************)
\* local parts "a", "A", "b"
EmailInputs == { <<97>>, <<65>>, <<98>> }

PasswordInputs == { "password1", "password2" }

RegisterPasswords == { "password1" }

\* 7 characters, and 129 characters
BadPasswords ==
    { "passwor",
      "ppppppppppppppppppppppppppppppppppppppppppppppppppppppppppppppppppppppppppppppppppppppppppppppppppppppppppppppppppppppppppppppppp" }

GoogleIDs == { "g1" }

\* what the provider can send as the account ID: an ID, or nothing
ProviderIDs == GoogleIDs \cup { "" }

\* the picture of a Google profile: none, or a URL
GoogleAvatars == { "", "gpic" }

\* the avatar of an UpdateProfileRequest: omitted (nil), or a URL
ProfileAvatars == { NULL, "pic" }

Workers == { 1, 2 }

(***************************************************************************)
(* strings.ToLower / strings.TrimSpace                                     *)
(***************************************************************************)
ToLowerChar(c) == IF c >= 65 /\ c <= 90 THEN c + 32 ELSE c

ToLower(s) == [i \in 1..Len(s) |-> ToLowerChar(s[i])]

IsSpace(c) == c \in {9, 10, 11, 12, 13, 32}

RECURSIVE TrimLeft(_)
TrimLeft(s) == IF s # <<>> /\ IsSpace(Head(s)) THEN TrimLeft(Tail(s)) ELSE s

RECURSIVE TrimRight(_)
TrimRight(s) ==
    IF s # <<>> /\ IsSpace(s[Len(s)]) THEN TrimRight(SubSeq(s, 1, Len(s) - 1)) ELSE s

TrimSpace(s) == TrimRight(TrimLeft(s))

(***************************************************************************)
(* Password service                                                        *)
(***************************************************************************)
ValidatePassword(p) == Len(p) >= MinPasswordLen /\ Len(p) <= MaxPasswordLen

\* bcrypt: the salt is abstracted, a hash verifies exactly its own plaintext
HashPassword(p) == [alg |-> "bcrypt", of |-> p]

VerifyPassword(p, h) == h.alg = "bcrypt" /\ h.of = p

(***************************************************************************)
(* Token service                                                           *)
(***************************************************************************)
GetTokenExpiration(tokenType) ==
    IF tokenType = TokenTypeRefresh THEN RefreshExpiry ELSE AccessExpiry

\* a signed token is determined by its claims and the key: NumericDate
\* truncates to the second, HS256 has no nonce
SignedToken(userID, email, role, tokenType, t, key) ==
    [UserID    |-> userID,
     Email     |-> email,
     Role      |-> role,
     TokenType |-> tokenType,
     ExpiresAt |-> t + GetTokenExpiration(tokenType),
     IssuedAt  |-> t,
     NotBefore |-> t,
     Key       |-> key]

GenerateAccessToken(userID, email, role, t) ==
    SignedToken(userID, email, role, TokenTypeAccess, t, SecretKey)

GenerateRefreshToken(userID, email, role, t) ==
    SignedToken(userID, email, role, TokenTypeRefresh, t, SecretKey)

validateTokenNoType(tok, expectedType, t) ==
    /\ tok.Key = SecretKey
    /\ t < tok.ExpiresAt
    /\ t >= tok.NotBefore

validateToken(tok, expectedType, t) ==
    /\ tok.Key = SecretKey
    /\ t < tok.ExpiresAt
    /\ t >= tok.NotBefore
    /\ tok.TokenType = expectedType

ValidateAccessToken(tok, t) == validateToken(tok, TokenTypeAccess, t)

ValidateRefreshToken(tok, t) == validateToken(tok, TokenTypeRefresh, t)

(***************************************************************************)
(* User entity                                                             *)
(***************************************************************************)
NewUser(id, email, role) ==
    [ID            |-> id,
     Email         |-> ToLower(TrimSpace(email)),
     Password      |-> NullPassword,
     Role          |-> role,
     Provider      |-> ProviderLocal,
     ProviderID    |-> NULL,
     Avatar        |-> NULL,
     EmailVerified |-> FALSE]

NewOAuthUser(id, email, providerID, provider, avatar) ==
    [ID            |-> id,
     Email         |-> ToLower(TrimSpace(email)),
     Password      |-> NullPassword,
     Role          |-> RoleUser,
     Provider      |-> provider,
     ProviderID    |-> providerID,
     Avatar        |-> avatar,
     EmailVerified |-> TRUE]

SetPassword(u, hashedPassword) ==
    IF u.Provider = ProviderLocal THEN [u EXCEPT !.Password = hashedPassword] ELSE u

\* the checks of Validate on the fields the model carries
Validate(u) ==
    /\ u.Email # <<>>
    /\ ~(u.Provider = ProviderLocal /\ (u.Password = NullPassword \/ u.Password.of = ""))
    /\ ~(u.Provider # ProviderLocal /\ (u.ProviderID = NULL \/ u.ProviderID = ""))

IsOAuthUser(u) == u.Provider # ProviderLocal

IsAdmin(u) == u.Role = RoleAdmin

PromoteToAdmin(u) == [u EXCEPT !.Role = RoleAdmin]

DemoteToUser(u) == [u EXCEPT !.Role = RoleUser]

\* the model carries the avatar of the profile, not the name
UpdateProfile(u, avatar) == [u EXCEPT !.Avatar = avatar]

(***************************************************************************)
(* User repository (table users, unique index on email)                    *)
(***************************************************************************)
EmailExists(us, email) == \E u \in us : u.Email = email

FindByEmail(us, email) ==
    IF \E u \in us : u.Email = email
    THEN CHOOSE u \in us : u.Email = email
    ELSE NoUser

FindByID(us, id) ==
    IF \E u \in us : u.ID = id THEN CHOOSE u \in us : u.ID = id ELSE NoUser

\* First() orders by primary key
FindByProviderID(us, provider, providerID) ==
    LET m == {u \in us : u.Provider = provider /\ u.ProviderID = providerID}
    IN  IF m = {} THEN NoUser
        ELSE CHOOSE u \in m : \A v \in m : u.ID <= v.ID

\* INSERT: fails on the primary key or the unique email index
UserCreateOK(us, u) == \A v \in us : v.ID # u.ID /\ v.Email # u.Email

UserCreate(us, u) == us \cup {u}

\* Save: full-row write keyed by ID
UserUpdate(us, u) == {v \in us : v.ID # u.ID} \cup {u}

\* DELETE FROM users WHERE id = ?; the tokens table has no foreign key
UserDelete(us, id) == {v \in us : v.ID # id}

(***************************************************************************)
(* Token repository (table tokens, unique index on refresh_token)          *)
(***************************************************************************)
NewToken(userID, refreshToken, expiresAt) ==
    [UserID |-> userID, RefreshToken |-> refreshToken, ExpiresAt |-> expiresAt]

TokenCreateOK(ts, row) == \A r \in ts : r.RefreshToken # row.RefreshToken

TokenCreate(ts, row) == ts \cup {row}

\* a DELETE whose WHERE clause matches no row
DeleteByRefreshTokenNoMatch(ts, refreshToken) == ts

DeleteByRefreshToken(ts, refreshToken) ==
    {r \in ts : r.RefreshToken # refreshToken}

\* a revocation that deletes the rows of the identity
RevokeAllUserTokensDelete(ts, userID, t) == {r \in ts : r.UserID # userID}

\* an UPDATE that moves the expiry an hour ahead instead of an hour back
RevokeAllUserTokensAhead(ts, userID, t) ==
    {IF r.UserID = userID THEN [r EXCEPT !.ExpiresAt = t + RevokeBackdate] ELSE r
        : r \in ts}

RevokeAllUserTokens(ts, userID, t) ==
    {IF r.UserID = userID THEN [r EXCEPT !.ExpiresAt = t - RevokeBackdate] ELSE r
        : r \in ts}

IsTokenValid(ts, refreshToken, t) ==
    \E r \in ts : r.RefreshToken = refreshToken /\ r.ExpiresAt > t

(***************************************************************************)
(* Use cases.  Each operator is one Execute method run to completion:      *)
(* it maps the tables, the clock and the request to the tables afterwards  *)
(* and the response.  flt is the set of store calls that return an error   *)
(* during this run (a failed statement changes nothing).                   *)
(***************************************************************************)
NoToken ==
    [UserID |-> 0, Email |-> <<>>, Role |-> "", TokenType |-> "", ExpiresAt |-> 0,
     IssuedAt |-> 0, NotBefore |-> 0, Key |-> ""]

\* a response without tokens: an error, or the acknowledgement of a logout
Failure(op, err, tok) ==
    [op |-> op, err |-> err, uid |-> 0, access |-> NoToken, refresh |-> NoToken,
     tok |-> tok]

\* dto.ToAuthResponse
ToAuthResponse(op, user, accessToken, refreshToken, tok) ==
    [op |-> op, err |-> "ok", uid |-> user.ID, access |-> accessToken,
     refresh |-> refreshToken, tok |-> tok]

RegisterExecute(us, ts, id, t, req, flt) ==
    LET op == "Register"
        stay(err) == [users |-> us, tokens |-> ts, resp |-> Failure(op, err, NoToken)]
        user == SetPassword(NewUser(id, req.Email, RoleUser), HashPassword(req.Password))
    IN  IF "EmailExists" \in flt THEN stay("failed to check email existence")
        ELSE IF EmailExists(us, req.Email) THEN stay("email already exists")
        ELSE IF ~ValidatePassword(req.Password) THEN stay("failed to hash password")
        ELSE IF ~Validate(user) THEN stay("invalid user data")
        ELSE IF "Create" \in flt \/ ~UserCreateOK(us, user) THEN stay("failed to create user")
        ELSE [users  |-> UserCreate(us, user),
              tokens |-> ts,
              resp   |-> ToAuthResponse(op, user,
                             GenerateAccessToken(user.ID, user.Email, user.Role, t),
                             GenerateRefreshToken(user.ID, user.Email, user.Role, t),
                             NoToken)]

\* a Login that revokes the sessions of the identity as soon as it is found
LoginExecuteRevokeFirst(us, ts, t, req, flt) ==
    LET op == "Login"
        user == FindByEmail(us, req.Email)
        ts1  == IF user = NoUser THEN ts ELSE RevokeAllUserTokens(ts, user.ID, t)
        stay(err) == [users |-> us, tokens |-> ts1, resp |-> Failure(op, err, NoToken)]
        accessToken  == GenerateAccessToken(user.ID, user.Email, user.Role, t)
        refreshToken == GenerateRefreshToken(user.ID, user.Email, user.Role, t)
        row == NewToken(user.ID, refreshToken, t + GetTokenExpiration(TokenTypeRefresh))
    IN  IF "FindByEmail" \in flt
        THEN [users |-> us, tokens |-> ts, resp |-> Failure(op, "failed to find user", NoToken)]
        ELSE IF user = NoUser THEN stay("invalid credentials")
        ELSE IF IsOAuthUser(user) THEN stay("please use OAuth login for this account")
        ELSE IF user.Password = NullPassword THEN stay("invalid credentials")
        ELSE IF ~VerifyPassword(req.Password, user.Password) THEN stay("invalid credentials")
        ELSE IF "Create" \in flt \/ ~TokenCreateOK(ts1, row)
             THEN stay("failed to store refresh token")
        ELSE [users  |-> us,
              tokens |-> TokenCreate(ts1, row),
              resp   |-> ToAuthResponse(op, user, accessToken, refreshToken, NoToken)]

LoginExecute(us, ts, t, req, flt) ==
    LET op == "Login"
        stay(err) == [users |-> us, tokens |-> ts, resp |-> Failure(op, err, NoToken)]
        user == FindByEmail(us, req.Email)
        ts1  == IF "RevokeAllUserTokens" \in flt THEN ts
                ELSE RevokeAllUserTokens(ts, user.ID, t)
        accessToken  == GenerateAccessToken(user.ID, user.Email, user.Role, t)
        refreshToken == GenerateRefreshToken(user.ID, user.Email, user.Role, t)
        row == NewToken(user.ID, refreshToken, t + GetTokenExpiration(TokenTypeRefresh))
    IN  IF "FindByEmail" \in flt THEN stay("failed to find user")
        ELSE IF user = NoUser THEN stay("invalid credentials")
        ELSE IF IsOAuthUser(user) THEN stay("please use OAuth login for this account")
        ELSE IF user.Password = NullPassword THEN stay("invalid credentials")
        ELSE IF ~VerifyPassword(req.Password, user.Password) THEN stay("invalid credentials")
        ELSE IF "Create" \in flt \/ ~TokenCreateOK(ts1, row)
             THEN [users |-> us, tokens |-> ts1,
                   resp |-> Failure(op, "failed to store refresh token", NoToken)]
        ELSE [users  |-> us,
              tokens |-> TokenCreate(ts1, row),
              resp   |-> ToAuthResponse(op, user, accessToken, refreshToken, NoToken)]

\* the profile Google returns: ID, email, picture URL ("" when there is none)
\* and whether Google verified the email
GoogleUserInfo(id, email, avatar, verified) ==
    [ID |-> id, Email |-> email, Avatar |-> avatar, VerifiedEmail |-> verified]

\* a merge that rebuilds the identity as a fresh OAuth user under the old ID
GoogleResolveRebuild(us, id, t, g, flt) ==
    LET byID    == FindByProviderID(us, ProviderGoogle, g.ID)
        byEmail == FindByEmail(us, g.Email)
        avatar  == IF g.Avatar # "" THEN g.Avatar ELSE NULL
        merged  == NewOAuthUser(byEmail.ID, g.Email, g.ID, ProviderGoogle, avatar)
        created == NewOAuthUser(id, g.Email, g.ID, ProviderGoogle, avatar)
        out(err, u, us1) == [err |-> err, user |-> u, users |-> us1]
    IN  IF "FindByProviderID" \in flt THEN out("failed to find user by provider ID", NoUser, us)
        ELSE IF byID # NoUser THEN out("ok", byID, us)
        ELSE IF "FindByEmail" \in flt THEN out("failed to find user by email", NoUser, us)
        ELSE IF byEmail # NoUser /\ byEmail.Provider # ProviderGoogle
             THEN IF "Update" \in flt THEN out("failed to merge user account", NoUser, us)
                  ELSE out("ok", merged, UserUpdate(us, merged))
        ELSE IF byEmail # NoUser THEN out("ok", byEmail, us)
        ELSE IF ~Validate(created) THEN out("invalid user data", NoUser, us)
        ELSE IF "Create" \in flt \/ ~UserCreateOK(us, created)
             THEN out("failed to create user", NoUser, us)
        ELSE out("ok", created, UserCreate(us, created))

\* the identity the Google login resolves to, and the users table after the
\* merge or the creation; err # "ok" when resolution fails
GoogleResolve(us, id, t, g, flt) ==
    LET byID    == FindByProviderID(us, ProviderGoogle, g.ID)
        byEmail == FindByEmail(us, g.Email)
        avatar  == IF g.Avatar # "" THEN g.Avatar ELSE NULL
        merged  == [byEmail EXCEPT !.Provider = ProviderGoogle,
                                   !.ProviderID = g.ID,
                                   !.Avatar = IF g.Avatar # "" THEN g.Avatar ELSE @,
                                   !.EmailVerified = TRUE]
        created == NewOAuthUser(id, g.Email, g.ID, ProviderGoogle, avatar)
        out(err, u, us1) == [err |-> err, user |-> u, users |-> us1]
    IN  IF "FindByProviderID" \in flt THEN out("failed to find user by provider ID", NoUser, us)
        ELSE IF byID # NoUser THEN out("ok", byID, us)
        ELSE IF "FindByEmail" \in flt THEN out("failed to find user by email", NoUser, us)
        ELSE IF byEmail # NoUser /\ byEmail.Provider # ProviderGoogle
             THEN IF "Update" \in flt THEN out("failed to merge user account", NoUser, us)
                  ELSE out("ok", merged, UserUpdate(us, merged))
        ELSE IF byEmail # NoUser THEN out("ok", byEmail, us)
        ELSE IF ~Validate(created) THEN out("invalid user data", NoUser, us)
        ELSE IF "Create" \in flt \/ ~UserCreateOK(us, created)
             THEN out("failed to create user", NoUser, us)
        ELSE out("ok", created, UserCreate(us, created))

\* a Google login that resolves the identity before it looks at VerifiedEmail
GoogleAuthExecuteVerifyLate(us, ts, id, t, g, flt) ==
    LET op == "GoogleAuth"
        res  == GoogleResolve(us, id, t, g, flt)
        user == res.user
        ts1  == IF "RevokeAllUserTokens" \in flt THEN ts
                ELSE RevokeAllUserTokens(ts, user.ID, t)
        accessToken  == GenerateAccessToken(user.ID, user.Email, user.Role, t)
        refreshToken == GenerateRefreshToken(user.ID, user.Email, user.Role, t)
        row == NewToken(user.ID, refreshToken, t + GetTokenExpiration(TokenTypeRefresh))
    IN  IF res.err # "ok"
        THEN [users |-> us, tokens |-> ts, resp |-> Failure(op, res.err, NoToken)]
        ELSE IF ~g.VerifiedEmail
        THEN [users |-> res.users, tokens |-> ts,
              resp |-> Failure(op, "email is not verified", NoToken)]
        ELSE IF "TokenCreate" \in flt \/ ~TokenCreateOK(ts1, row)
        THEN [users |-> res.users, tokens |-> ts1,
              resp |-> Failure(op, "failed to store refresh token", NoToken)]
        ELSE [users  |-> res.users,
              tokens |-> TokenCreate(ts1, row),
              resp   |-> ToAuthResponse(op, user, accessToken, refreshToken, NoToken)]

GoogleAuthExecute(us, ts, id, t, g, flt) ==
    LET op == "GoogleAuth"
        res  == GoogleResolve(us, id, t, g, flt)
        user == res.user
        ts1  == IF "RevokeAllUserTokens" \in flt THEN ts
                ELSE RevokeAllUserTokens(ts, user.ID, t)
        accessToken  == GenerateAccessToken(user.ID, user.Email, user.Role, t)
        refreshToken == GenerateRefreshToken(user.ID, user.Email, user.Role, t)
        row == NewToken(user.ID, refreshToken, t + GetTokenExpiration(TokenTypeRefresh))
    IN  IF ~g.VerifiedEmail
        THEN [users |-> us, tokens |-> ts,
              resp |-> Failure(op, "email is not verified", NoToken)]
        ELSE IF res.err # "ok"
        THEN [users |-> us, tokens |-> ts, resp |-> Failure(op, res.err, NoToken)]
        ELSE IF "TokenCreate" \in flt \/ ~TokenCreateOK(ts1, row)
        THEN [users |-> res.users, tokens |-> ts1,
              resp |-> Failure(op, "failed to store refresh token", NoToken)]
        ELSE [users  |-> res.users,
              tokens |-> TokenCreate(ts1, row),
              resp   |-> ToAuthResponse(op, user, accessToken, refreshToken, NoToken)]

\* a Refresh that does not test the result of FindByID and builds the tokens
\* from the claims of the presented token
RefreshExecuteNoUserCheck(us, ts, t, tok, flt) ==
    LET op == "Refresh"
        stay(err) == [users |-> us, tokens |-> ts, resp |-> Failure(op, err, tok)]
        user == [NoUser EXCEPT !.ID = tok.UserID, !.Email = tok.Email, !.Role = tok.Role]
        ts1  == DeleteByRefreshToken(ts, tok)
        accessToken     == GenerateAccessToken(user.ID, user.Email, user.Role, t)
        newRefreshToken == GenerateRefreshToken(user.ID, user.Email, user.Role, t)
        row == NewToken(user.ID, newRefreshToken, t + GetTokenExpiration(TokenTypeRefresh))
    IN  IF ~ValidateRefreshToken(tok, t) THEN stay("invalid refresh token")
        ELSE IF "IsTokenValid" \in flt THEN stay("failed to validate refresh token")
        ELSE IF ~IsTokenValid(ts, tok, t)
             THEN stay("refresh token has been revoked or expired")
        ELSE IF "DeleteByRefreshToken" \in flt
             THEN stay("failed to delete old refresh token")
        ELSE IF "Create" \in flt \/ ~TokenCreateOK(ts1, row)
             THEN [users |-> us, tokens |-> ts1,
                   resp |-> Failure(op, "failed to store new refresh token", tok)]
        ELSE [users  |-> us,
              tokens |-> TokenCreate(ts1, row),
              resp   |-> ToAuthResponse(op, user, accessToken, newRefreshToken, tok)]

\* a Refresh that checks that the identity exists but copies the email and
\* the role of the presented token into the new tokens
RefreshExecuteCopyClaims(us, ts, t, tok, flt) ==
    LET op == "Refresh"
        stay(err) == [users |-> us, tokens |-> ts, resp |-> Failure(op, err, tok)]
        user == FindByID(us, tok.UserID)
        ts1  == DeleteByRefreshToken(ts, tok)
        accessToken     == GenerateAccessToken(user.ID, tok.Email, tok.Role, t)
        newRefreshToken == GenerateRefreshToken(user.ID, tok.Email, tok.Role, t)
        row == NewToken(user.ID, newRefreshToken, t + GetTokenExpiration(TokenTypeRefresh))
    IN  IF ~ValidateRefreshToken(tok, t) THEN stay("invalid refresh token")
        ELSE IF "IsTokenValid" \in flt THEN stay("failed to validate refresh token")
        ELSE IF ~IsTokenValid(ts, tok, t)
             THEN stay("refresh token has been revoked or expired")
        ELSE IF "FindByID" \in flt THEN stay("failed to find user")
        ELSE IF user = NoUser THEN stay("user not found")
        ELSE IF "DeleteByRefreshToken" \in flt
             THEN stay("failed to delete old refresh token")
        ELSE IF "Create" \in flt \/ ~TokenCreateOK(ts1, row)
             THEN [users |-> us, tokens |-> ts1,
                   resp |-> Failure(op, "failed to store new refresh token", tok)]
        ELSE [users  |-> us,
              tokens |-> TokenCreate(ts1, row),
              resp   |-> ToAuthResponse(op, user, accessToken, newRefreshToken, tok)]

RefreshExecute(us, ts, t, tok, flt) ==
    LET op == "Refresh"
        stay(err) == [users |-> us, tokens |-> ts, resp |-> Failure(op, err, tok)]
        user == FindByID(us, tok.UserID)
        ts1  == DeleteByRefreshToken(ts, tok)
        accessToken     == GenerateAccessToken(user.ID, user.Email, user.Role, t)
        newRefreshToken == GenerateRefreshToken(user.ID, user.Email, user.Role, t)
        row == NewToken(user.ID, newRefreshToken, t + GetTokenExpiration(TokenTypeRefresh))
    IN  IF ~ValidateRefreshToken(tok, t) THEN stay("invalid refresh token")
        ELSE IF "IsTokenValid" \in flt THEN stay("failed to validate refresh token")
        ELSE IF ~IsTokenValid(ts, tok, t)
             THEN stay("refresh token has been revoked or expired")
        ELSE IF "FindByID" \in flt THEN stay("failed to find user")
        ELSE IF user = NoUser THEN stay("user not found")
        ELSE IF "DeleteByRefreshToken" \in flt
             THEN stay("failed to delete old refresh token")
        ELSE IF "Create" \in flt \/ ~TokenCreateOK(ts1, row)
             THEN [users |-> us, tokens |-> ts1,
                   resp |-> Failure(op, "failed to store new refresh token", tok)]
        ELSE [users  |-> us,
              tokens |-> TokenCreate(ts1, row),
              resp   |-> ToAuthResponse(op, user, accessToken, newRefreshToken, tok)]

LogoutExecute(us, ts, tok, flt) ==
    IF "DeleteByRefreshToken" \in flt
    THEN [users |-> us, tokens |-> ts,
          resp |-> Failure("Logout", "failed to delete refresh token", NoToken)]
    ELSE [users |-> us, tokens |-> DeleteByRefreshToken(ts, tok),
          resp |-> Failure("Logout", "ok", tok)]

LogoutAllExecute(us, ts, t, userID, flt) ==
    IF "RevokeAllUserTokens" \in flt
    THEN [users |-> us, tokens |-> ts,
          resp |-> [Failure("LogoutAll", "failed to revoke all user tokens", NoToken) EXCEPT !.uid = userID]]
    ELSE [users |-> us, tokens |-> RevokeAllUserTokens(ts, userID, t),
          resp |-> [Failure("LogoutAll", "ok", NoToken) EXCEPT !.uid = userID]]

\* the response of an admin operation on the identity target
AdminResponse(op, err, target) == [Failure(op, err, NoToken) EXCEPT !.uid = target]

DeleteUserExecute(us, ts, targetUserID, flt) ==
    LET op == "DeleteUser"
        stay(err) == [users |-> us, tokens |-> ts,
                      resp |-> AdminResponse(op, err, targetUserID)]
        user == FindByID(us, targetUserID)
    IN  IF "FindByID" \in flt THEN stay("failed to find user")
        ELSE IF user = NoUser THEN stay("user not found")
        ELSE IF "Delete" \in flt THEN stay("failed to delete user")
        ELSE [users |-> UserDelete(us, targetUserID), tokens |-> ts,
              resp |-> AdminResponse(op, "ok", targetUserID)]

\* a promotion that does not look at the current role
PromoteUserExecuteNoCheck(us, ts, targetUserID, flt) ==
    LET op == "PromoteUser"
        stay(err) == [users |-> us, tokens |-> ts,
                      resp |-> AdminResponse(op, err, targetUserID)]
        user == FindByID(us, targetUserID)
    IN  IF "FindByID" \in flt THEN stay("failed to find user")
        ELSE IF user = NoUser THEN stay("user not found")
        ELSE IF "Update" \in flt THEN stay("failed to promote user")
        ELSE [users |-> UserUpdate(us, PromoteToAdmin(user)), tokens |-> ts,
              resp |-> AdminResponse(op, "ok", targetUserID)]

PromoteUserExecute(us, ts, targetUserID, flt) ==
    LET op == "PromoteUser"
        stay(err) == [users |-> us, tokens |-> ts,
                      resp |-> AdminResponse(op, err, targetUserID)]
        user == FindByID(us, targetUserID)
    IN  IF "FindByID" \in flt THEN stay("failed to find user")
        ELSE IF user = NoUser THEN stay("user not found")
        ELSE IF IsAdmin(user) THEN stay("user is already an admin")
        ELSE IF "Update" \in flt THEN stay("failed to promote user")
        ELSE [users |-> UserUpdate(us, PromoteToAdmin(user)), tokens |-> ts,
              resp |-> AdminResponse(op, "ok", targetUserID)]

DemoteUserExecute(us, ts, targetUserID, flt) ==
    LET op == "DemoteUser"
        stay(err) == [users |-> us, tokens |-> ts,
                      resp |-> AdminResponse(op, err, targetUserID)]
        user == FindByID(us, targetUserID)
    IN  IF "FindByID" \in flt THEN stay("failed to find user")
        ELSE IF user = NoUser THEN stay("user not found")
        ELSE IF ~IsAdmin(user) THEN stay("user is not an admin")
        ELSE IF "Update" \in flt THEN stay("failed to demote user")
        ELSE [users |-> UserUpdate(us, DemoteToUser(user)), tokens |-> ts,
              resp |-> AdminResponse(op, "ok", targetUserID)]

UpdateUserProfileExecute(us, ts, userID, req, flt) ==
    LET op == "UpdateMe"
        stay(err) == [users |-> us, tokens |-> ts, resp |-> AdminResponse(op, err, userID)]
        user    == FindByID(us, userID)
        updated == UpdateProfile(user, req.Avatar)
    IN  IF "FindByID" \in flt THEN stay("failed to find user")
        ELSE IF user = NoUser THEN stay("user not found")
        ELSE IF ~Validate(updated) THEN stay("invalid user data")
        ELSE IF "Update" \in flt THEN stay("failed to update user")
        ELSE [users |-> UserUpdate(us, updated), tokens |-> ts,
              resp |-> AdminResponse(op, "ok", userID)]

(***************************************************************************)
(* AuthHandler: the error code of the HTTP response to a use-case error    *)
(***************************************************************************)
RegisterErrorCode(err) ==
    IF err = "email already exists" THEN "EMAIL_EXISTS" ELSE "REGISTRATION_FAILED"

\* AuthHandler.Register: ShouldBindJSON (email required, password min=8)
\* answers 400 INVALID_REQUEST without running the use case
RegisterHandler(us, ts, id, t, req, flt) ==
    IF req.Email = <<>> \/ Len(req.Password) < MinPasswordLen
    THEN [users |-> us, tokens |-> ts,
          resp |-> Failure("Register", "INVALID_REQUEST", NoToken)]
    ELSE RegisterExecute(us, ts, id, t, req, flt)

\* AuthHandler.Login: strings.Contains on the use-case error
LoginErrorCode(err) ==
    IF err \in {"invalid credentials", "user not found"} THEN "INVALID_CREDENTIALS"
    ELSE IF err = "please use OAuth login for this account" THEN "OAUTH_REQUIRED"
    ELSE "LOGIN_FAILED"

\* UserHandler.PromoteUser / DemoteUser: the error code of the response
PromoteErrorCode(err) ==
    IF err = "user not found" THEN "USER_NOT_FOUND"
    ELSE IF err = "user is already an admin" THEN "USER_ALREADY_ADMIN"
    ELSE "PROMOTE_USER_FAILED"

DemoteErrorCode(err) ==
    IF err = "user not found" THEN "USER_NOT_FOUND"
    ELSE IF err = "user is not an admin" THEN "USER_NOT_ADMIN"
    ELSE "DEMOTE_USER_FAILED"

(***************************************************************************)
(* Middleware                                                              *)
(***************************************************************************)
\* RequireAuth admits the request iff the bearer validates as an access token
\* a middleware that also looks the bearer's identity up in the users table
RequireAuthStateful(bearer, t) ==
    /\ ValidateAccessToken(bearer, t)
    /\ \E u \in users : u.ID = bearer.UserID /\ u.Role = bearer.Role

RequireAuth(bearer, t) == ValidateAccessToken(bearer, t)

\* a role middleware that lets every authenticated request through
RequireRoleAny(bearer, role) == TRUE

\* RequireRole compares the role claim RequireAuth put in the context
RequireRole(bearer, role) == bearer.Role = role

\* POST /auth/logout: behind RequireAuth; the handler passes the refresh token
\* of the body to the use case and does not read the user_id of the bearer
LogoutHandler(us, ts, t, bearer, tok, flt) ==
    IF ~RequireAuth(bearer, t)
    THEN [users |-> us, tokens |-> ts,
          resp |-> Failure("RequireAuth", "INVALID_TOKEN", NoToken)]
    ELSE LogoutExecute(us, ts, tok, flt)

RequireAdmin(bearer) == RequireRole(bearer, RoleAdmin)

\* the admin group: RequireAuth, then RequireAdmin, then the handler ("next");
\* a request without Authorization header presents NoToken
AdminGate(bearer, t) ==
    IF bearer = NoToken THEN "MISSING_TOKEN"
    ELSE IF ~RequireAuth(bearer, t) THEN "INVALID_TOKEN"
    ELSE IF ~RequireAdmin(bearer) THEN "INSUFFICIENT_PERMISSIONS"
    ELSE "next"

(***************************************************************************)
(* What clients can present                                                *)
(***************************************************************************)
\* the access token returned together with a refresh token
AccessOf(rt) == GenerateAccessToken(rt.UserID, rt.Email, rt.Role, rt.IssuedAt)

\* the same claims signed with another key
Forged(tok) == [tok EXCEPT !.Key = "forged"]

\* the refresh tokens clients hold: those of earlier responses and the last one
Held == issued \cup (IF last.refresh # NoToken THEN {last.refresh} ELSE {})

TokenInputs == Held \cup {AccessOf(rt) : rt \in Held} \cup {Forged(rt) : rt \in Held}

\* at most one store call of a request fails.  The requests enumerate the
\* failures of the writes; a failed read only yields a storage error and
\* leaves the tables alone
FaultSets(calls) == {{}} \cup {{c} : c \in calls}

\* the clock advances by a second, or past the lifetime of every token
TickSteps == {1, RefreshExpiry}

\* the number of clock steps taken to reach t
Ticks(t) == (t \div RefreshExpiry) + (t % RefreshExpiry)

\* a request worker running RefreshTokenUseCase.Execute one store call at a
\* time: its position, its request, its local user and its response.
\* active0 and conc record for the properties whether the token was valid and
\* active when the call started and whether the call overlapped the other one.
IdleWorker == [pc |-> "idle", tok |-> NoToken, user |-> NoUser,
               res |-> Failure("", "", NoToken), active0 |-> FALSE, conc |-> FALSE]

(***************************************************************************)
(* State machine: requests handled one at a time                           *)
(***************************************************************************)
Init ==
    /\ users = {}
    /\ tokens = {}
    /\ now = 0
    /\ nextID = 1
    /\ last = Failure("", "", NoToken)
    /\ issued = {}
    /\ nreq = 0
    /\ wk = [i \in Workers |-> IdleWorker]

\* the tables and the response of a completed request
Complete(r, usedID) ==
    /\ nreq < MaxRequests
    /\ nreq' = nreq + 1
    /\ users' = r.users
    /\ tokens' = r.tokens
    /\ last' = r.resp
    /\ issued' = IF last.refresh # NoToken THEN issued \cup {last.refresh} ELSE issued
    /\ nextID' = IF usedID THEN nextID + 1 ELSE nextID
    /\ UNCHANGED <<now, wk>>

Register ==
    \E email \in EmailInputs, password \in RegisterPasswords,
       flt \in FaultSets({"Create"}) :
        LET r == RegisterHandler(users, tokens, nextID, now,
                                 [Email |-> email, Password |-> password], flt)
        IN  /\ r.users # users => nextID <= MaxUsers
            /\ Complete(r, r.users # users)

\* the store calls of a request that can fail are those the request reaches
Login ==
    \E email \in EmailInputs, password \in PasswordInputs :
      \E flt \in IF LoginExecute(users, tokens, now,
                        [Email |-> email, Password |-> password], {}).resp.err
                        \in {"ok", "failed to store refresh token"}
                 THEN FaultSets({"RevokeAllUserTokens", "Create"})
                 ELSE {{}} :
        LET r == LoginExecute(users, tokens, now,
                              [Email |-> email, Password |-> password], flt)
        IN  /\ r.users = users
            /\ Complete(r, FALSE)

GoogleAuth ==
    \E gid \in GoogleIDs, email \in EmailInputs, verified \in BOOLEAN :
      \E flt \in IF verified
                 THEN FaultSets({"Update", "Create",
                                 "RevokeAllUserTokens", "TokenCreate"})
                 ELSE {{}} :
        LET r == GoogleAuthExecute(users, tokens, nextID, now,
                     GoogleUserInfo(gid, email, "", verified), flt)
            created == Cardinality(r.users) > Cardinality(users)
        IN  /\ created => nextID <= MaxUsers
            /\ Complete(r, created)

Refresh ==
    \E tok \in TokenInputs :
      \E flt \in IF RefreshExecute(users, tokens, now, tok, {}).resp.err
                        \in {"ok", "failed to store new refresh token"}
                 THEN FaultSets({"DeleteByRefreshToken", "Create"})
                 ELSE {{}} :
        LET r == RefreshExecute(users, tokens, now, tok, flt)
        IN  /\ r.users = users
            /\ Complete(r, FALSE)

\* Logout and LogoutAll are behind RequireAuth; the outcome of Logout depends on
\* the bearer only through its admission
Logout ==
    \E tok \in TokenInputs, flt \in FaultSets({"DeleteByRefreshToken"}) :
        LET admitted == {bearer \in TokenInputs : RequireAuth(bearer, now)}
        IN  /\ admitted # {}
            /\ Complete(LogoutHandler(users, tokens, now, CHOOSE bearer \in admitted : TRUE,
                                      tok, flt), FALSE)

LogoutAll ==
    \E userID \in {bearer.UserID : bearer \in {b \in TokenInputs : RequireAuth(b, now)}},
       flt \in FaultSets({"RevokeAllUserTokens"}) :
        Complete(LogoutAllExecute(users, tokens, now, userID, flt), FALSE)

\* a protected request whose bearer RequireAuth rejects: answered 401, the
\* handler does not run
Unauthorized ==
    /\ \E bearer \in TokenInputs : ~RequireAuth(bearer, now)
    /\ Complete([users |-> users, tokens |-> tokens,
                 resp |-> Failure("RequireAuth", "INVALID_TOKEN", NoToken)], FALSE)

\* before the first request the tables are empty of timestamps: behaviours
\* are the same whatever the time of the first request
Tick ==
    /\ nreq > 0
    /\ Ticks(now) < MaxTicks
    /\ \E d \in TickSteps : now' = now + d
    /\ UNCHANGED <<users, tokens, nextID, last, issued, nreq, wk>>

Request ==
    \/ Register
    \/ Login
    \/ GoogleAuth
    \/ Refresh
    \/ Logout
    \/ LogoutAll
    \/ Unauthorized

Next ==
    \/ Request
    \/ Tick

Spec == Init /\ [][Next]_vars

(***************************************************************************)
(* Administration.  No request creates an ADMIN out of an empty users      *)
(* table, so the admin routes only ever run on a database seeded with an   *)
(* administrator.                                                          *)
(***************************************************************************)
\* the seeded administrator: a LOCAL account with a password
SeedAdmin == SetPassword(NewUser(1, <<98>>, RoleAdmin), HashPassword("password1"))

InitAdmin ==
    /\ users = {SeedAdmin}
    /\ tokens = {}
    /\ now = 0
    /\ nextID = 2
    /\ last = Failure("", "", NoToken)
    /\ issued = {}
    /\ nreq = 0
    /\ wk = [i \in Workers |-> IdleWorker]

AdminOps == {"ListUsers", "GetUser", "DeleteUser", "PromoteUser", "DemoteUser"}

\* what a client can put in the Authorization header
BearerInputs == {AccessOf(rt) : rt \in Held} \cup Held \cup {NoToken}

\* the response of a request to the admin group records its bearer
ByBearer(r, bearer) == [r EXCEPT !.resp.tok = bearer]

\* ListUsers and GetUser read the users table
ReadUsers ==
    \E bearer \in BearerInputs, op \in {"ListUsers", "GetUser"} :
        /\ AdminGate(bearer, now) = "next"
        /\ Complete([users |-> users, tokens |-> tokens,
                     resp |-> Failure(op, "ok", bearer)], FALSE)

DeleteUser ==
    \E bearer \in BearerInputs, target \in 1..MaxUsers,
       flt \in FaultSets({"Delete"}) :
        /\ AdminGate(bearer, now) = "next"
        /\ Complete(ByBearer(DeleteUserExecute(users, tokens, target, flt), bearer), FALSE)

PromoteUser ==
    \E bearer \in BearerInputs, target \in 1..MaxUsers,
       flt \in FaultSets({"Update"}) :
        /\ AdminGate(bearer, now) = "next"
        /\ Complete(ByBearer(PromoteUserExecute(users, tokens, target, flt), bearer), FALSE)

DemoteUser ==
    \E bearer \in BearerInputs, target \in 1..MaxUsers,
       flt \in FaultSets({"Update"}) :
        /\ AdminGate(bearer, now) = "next"
        /\ Complete(ByBearer(DemoteUserExecute(users, tokens, target, flt), bearer), FALSE)

\* a request to the admin group stopped by RequireAuth (401) or RequireAdmin
\* (403): c.Abort(), the handler does not run
AdminDenied ==
    \E bearer \in BearerInputs :
        /\ AdminGate(bearer, now) # "next"
        /\ Complete([users |-> users, tokens |-> tokens,
                     resp |-> Failure("AdminGate", AdminGate(bearer, now), NoToken)], FALSE)

AdminRequest ==
    \/ ReadUsers
    \/ DeleteUser
    \/ PromoteUser
    \/ DemoteUser
    \/ AdminDenied

NextAdmin ==
    \/ Request
    \/ AdminRequest
    \/ Tick

SpecAdmin == InitAdmin /\ [][NextAdmin]_vars

(***************************************************************************)
(* Profiles.  The requests that write the users table, with the whole      *)
(* Google profile (picture, possibly no account ID) and the profile update *)
(***************************************************************************)
\* GET /auth/google/callback with a profile whose email Google verified
GoogleCallback ==
    \E gid \in ProviderIDs, email \in EmailInputs, avatar \in GoogleAvatars,
       flt \in FaultSets({"Update", "Create"}) :
        LET r == GoogleAuthExecute(users, tokens, nextID, now,
                                   GoogleUserInfo(gid, email, avatar, TRUE), flt)
            created == Cardinality(r.users) > Cardinality(users)
        IN  /\ created => nextID <= MaxUsers
            /\ Complete(r, created)

\* PUT /users/me: behind RequireAuth, the identity is the bearer's user_id
UpdateMe ==
    \E bearer \in BearerInputs, avatar \in ProfileAvatars,
       flt \in FaultSets({"Update"}) :
        /\ RequireAuth(bearer, now)
        /\ Complete(ByBearer(UpdateUserProfileExecute(users, tokens, bearer.UserID,
                                 [Avatar |-> avatar], flt), bearer), FALSE)

NextProfile ==
    \/ Register
    \/ Login
    \/ GoogleCallback
    \/ UpdateMe
    \/ PromoteUser
    \/ DemoteUser

SpecProfile == InitAdmin /\ [][NextProfile]_vars

(***************************************************************************)
(* Concurrent refresh: two workers run RefreshTokenUseCase.Execute, each   *)
(* store call being one step                                               *)
(***************************************************************************)
InFlight(i) == wk[i].pc \notin {"idle", "done"}

Finish(i, resp) == [wk[i] EXCEPT !.pc = "done", !.res = resp]

RefreshBegin(i) ==
    \E tok \in Held :
        LET others == {j \in Workers \ {i} : InFlight(j) /\ wk[j].tok = tok}
            mine == [IdleWorker EXCEPT
                        !.tok = tok,
                        !.active0 = ValidateRefreshToken(tok, now)
                                        /\ IsTokenValid(tokens, tok, now),
                        !.conc = others # {}]
        IN  /\ wk[i].pc = "idle"
            /\ nreq < MaxRequests
            /\ nreq' = nreq + 1
            /\ wk' = [j \in Workers |->
                        IF j = i
                        THEN IF ValidateRefreshToken(tok, now)
                             THEN [mine EXCEPT !.pc = "IsTokenValid"]
                             ELSE [mine EXCEPT !.pc = "done",
                                     !.res = Failure("Refresh", "invalid refresh token", tok)]
                        ELSE IF j \in others THEN [wk[j] EXCEPT !.conc = TRUE]
                        ELSE wk[j]]
            /\ UNCHANGED <<users, tokens, now, nextID, last, issued>>

RefreshIsTokenValid(i) ==
    /\ wk[i].pc = "IsTokenValid"
    /\ wk' = [wk EXCEPT ![i] =
                IF IsTokenValid(tokens, wk[i].tok, now)
                THEN [wk[i] EXCEPT !.pc = "FindByID"]
                ELSE Finish(i, Failure("Refresh",
                         "refresh token has been revoked or expired", wk[i].tok))]
    /\ UNCHANGED <<users, tokens, now, nextID, last, issued, nreq>>

RefreshFindByID(i) ==
    /\ wk[i].pc = "FindByID"
    /\ LET user == FindByID(users, wk[i].tok.UserID)
       IN  wk' = [wk EXCEPT ![i] =
                    IF user = NoUser
                    THEN Finish(i, Failure("Refresh", "user not found", wk[i].tok))
                    ELSE [wk[i] EXCEPT !.pc = "DeleteByRefreshToken", !.user = user]]
    /\ UNCHANGED <<users, tokens, now, nextID, last, issued, nreq>>

RefreshDelete(i) ==
    /\ wk[i].pc = "DeleteByRefreshToken"
    /\ tokens' = DeleteByRefreshToken(tokens, wk[i].tok)
    /\ wk' = [wk EXCEPT ![i].pc = "Create"]
    /\ UNCHANGED <<users, now, nextID, last, issued, nreq>>

RefreshCreate(i) ==
    /\ wk[i].pc = "Create"
    /\ LET user == wk[i].user
           accessToken     == GenerateAccessToken(user.ID, user.Email, user.Role, now)
           newRefreshToken == GenerateRefreshToken(user.ID, user.Email, user.Role, now)
           row == NewToken(user.ID, newRefreshToken,
                           now + GetTokenExpiration(TokenTypeRefresh))
       IN  IF TokenCreateOK(tokens, row)
           THEN /\ tokens' = TokenCreate(tokens, row)
                /\ wk' = [wk EXCEPT ![i] =
                            Finish(i, ToAuthResponse("Refresh", user, accessToken,
                                                     newRefreshToken, wk[i].tok))]
           ELSE /\ tokens' = tokens
                /\ wk' = [wk EXCEPT ![i] =
                            Finish(i, Failure("Refresh",
                                "failed to store new refresh token", wk[i].tok))]
    /\ UNCHANGED <<users, now, nextID, last, issued, nreq>>

\* the response reaches the client
RefreshReturn(i) ==
    /\ wk[i].pc = "done"
    /\ last' = wk[i].res
    /\ issued' = IF last.refresh # NoToken THEN issued \cup {last.refresh} ELSE issued
    /\ wk' = [wk EXCEPT ![i] = IdleWorker]
    /\ UNCHANGED <<users, tokens, now, nextID, nreq>>

\* the requests that are not refreshes are handled between the refreshes
Quiet == \A i \in Workers : wk[i].pc = "idle"

NextConc ==
    \/ Quiet /\ Request
    \/ Tick
    \/ \E i \in Workers : RefreshBegin(i)
    \/ \E i \in Workers : RefreshIsTokenValid(i)
    \/ \E i \in Workers : RefreshFindByID(i)
    \/ \E i \in Workers : RefreshDelete(i)
    \/ \E i \in Workers : RefreshCreate(i)
    \/ \E i \in Workers : RefreshReturn(i)

SpecConc == Init /\ [][NextConc]_vars

(***************************************************************************)
(* Concurrent writers of one identity.  Promote, Demote, UpdateProfile and *)
(* the merge of a Google login each read the row, change their copy and    *)
(* write the whole row back with Save; the read and the write are separate *)
(* steps.  wk[i].user is the copy, wk[i].res the response once saved.      *)
(***************************************************************************)
\* worker i has read a row and goes on to save its copy with response resp
Pending(i, user, resp) == [wk[i] EXCEPT !.pc = "Update", !.user = user, !.res = resp]

\* worker i takes a request: it stops with an error or goes on to the save
Begin(i, w) ==
    /\ wk[i].pc = "idle"
    /\ nreq < MaxRequests
    /\ nreq' = nreq + 1
    /\ wk' = [wk EXCEPT ![i] = w]
    /\ UNCHANGED <<users, tokens, now, nextID, last, issued>>

PromoteBegin(i) ==
    \E bearer \in BearerInputs, target \in 1..MaxUsers :
        LET user == FindByID(users, target)
            resp(err) == AdminResponse("PromoteUser", err, target)
        IN  /\ AdminGate(bearer, now) = "next"
            /\ Begin(i, IF user = NoUser THEN Finish(i, resp("user not found"))
                         ELSE IF IsAdmin(user)
                              THEN Finish(i, resp("user is already an admin"))
                         ELSE Pending(i, PromoteToAdmin(user), resp("ok")))

DemoteBegin(i) ==
    \E bearer \in BearerInputs, target \in 1..MaxUsers :
        LET user == FindByID(users, target)
            resp(err) == AdminResponse("DemoteUser", err, target)
        IN  /\ AdminGate(bearer, now) = "next"
            /\ Begin(i, IF user = NoUser THEN Finish(i, resp("user not found"))
                         ELSE IF ~IsAdmin(user)
                              THEN Finish(i, resp("user is not an admin"))
                         ELSE Pending(i, DemoteToUser(user), resp("ok")))

UpdateMeBegin(i) ==
    \E bearer \in BearerInputs, avatar \in ProfileAvatars :
        LET user    == FindByID(users, bearer.UserID)
            updated == UpdateProfile(user, avatar)
            resp(err) == AdminResponse("UpdateMe", err, bearer.UserID)
        IN  /\ RequireAuth(bearer, now)
            /\ Begin(i, IF user = NoUser THEN Finish(i, resp("user not found"))
                         ELSE IF ~Validate(updated)
                              THEN Finish(i, resp("invalid user data"))
                         ELSE Pending(i, updated, resp("ok")))

\* a verified Google login that finds no identity with the account ID and an
\* identity of another provider with the email: it goes on to save the merge
MergeBegin(i) ==
    \E gid \in GoogleIDs, email \in EmailInputs, avatar \in GoogleAvatars :
        LET byEmail == FindByEmail(users, email)
            merged  == [byEmail EXCEPT !.Provider = ProviderGoogle,
                                       !.ProviderID = gid,
                                       !.Avatar = IF avatar # "" THEN avatar ELSE @,
                                       !.EmailVerified = TRUE]
        IN  /\ FindByProviderID(users, ProviderGoogle, gid) = NoUser
            /\ byEmail # NoUser
            /\ byEmail.Provider # ProviderGoogle
            /\ Begin(i, Pending(i, merged, Failure("GoogleAuth", "", NoToken)))

\* userRepo.Update: Save writes every column of the copy
SaveUser(i) ==
    /\ wk[i].pc = "Update"
    /\ users' = UserUpdate(users, wk[i].user)
    /\ wk' = [wk EXCEPT ![i].pc = IF wk[i].res.op = "GoogleAuth" THEN "Issue" ELSE "done"]
    /\ UNCHANGED <<tokens, now, nextID, last, issued, nreq>>

\* the rest of the Google login after the merge: revoke, issue, store
MergeIssue(i) ==
    /\ wk[i].pc = "Issue"
    /\ LET user == wk[i].user
           ts1  == RevokeAllUserTokens(tokens, user.ID, now)
           accessToken  == GenerateAccessToken(user.ID, user.Email, user.Role, now)
           refreshToken == GenerateRefreshToken(user.ID, user.Email, user.Role, now)
           row == NewToken(user.ID, refreshToken,
                           now + GetTokenExpiration(TokenTypeRefresh))
       IN  IF TokenCreateOK(ts1, row)
           THEN /\ tokens' = TokenCreate(ts1, row)
                /\ wk' = [wk EXCEPT ![i] =
                            Finish(i, ToAuthResponse("GoogleAuth", user, accessToken,
                                                     refreshToken, NoToken))]
           ELSE /\ tokens' = ts1
                /\ wk' = [wk EXCEPT ![i] =
                            Finish(i, Failure("GoogleAuth",
                                "failed to store refresh token", NoToken))]
    /\ UNCHANGED <<users, now, nextID, last, issued, nreq>>

NextRace ==
    \/ Quiet /\ Register
    \/ Quiet /\ Login
    \/ \E i \in Workers : PromoteBegin(i)
    \/ \E i \in Workers : DemoteBegin(i)
    \/ \E i \in Workers : UpdateMeBegin(i)
    \/ \E i \in Workers : MergeBegin(i)
    \/ \E i \in Workers : SaveUser(i)
    \/ \E i \in Workers : MergeIssue(i)
    \/ \E i \in Workers : RefreshReturn(i)

SpecRace == InitAdmin /\ [][NextRace]_vars

(***************************************************************************)
(* Properties                                                              *)
(***************************************************************************)
RevokedOrExpired == "refresh token has been revoked or expired"

\* the outcome of a Refresh request presenting tok in the current state
RefreshNow(tok) == RefreshExecute(users, tokens, now, tok, {}).resp

ActiveRows(userID) == {r \in tokens : r.UserID = userID /\ r.ExpiresAt > now}

\* the last response was produced in the current clock second
JustNow == last.refresh.IssuedAt = now

\* C1: without concurrency, a Refresh of a valid and active refresh token
\* succeeds and returns a refresh token different from the presented one, and
\* a second Refresh presenting the original token fails with RevokedOrExpired
C1_RefreshRotates ==
    /\ \A tok \in Held :
          (ValidateRefreshToken(tok, now) /\ IsTokenValid(tokens, tok, now))
              => RefreshNow(tok).err = "ok"
    /\ (last.op = "Refresh" /\ last.err = "ok" /\ JustNow)
          => /\ last.refresh # last.tok
             /\ RefreshNow(last.tok).err = RevokedOrExpired

\* C2: of two interleaved Refresh calls presenting the same valid and active
\* refresh token, exactly one succeeds and the other fails with RevokedOrExpired
C2_ConcurrentRefreshOneWinner ==
    \A i \in Workers : \A j \in Workers \ {i} :
        (/\ wk[i].pc = "done" /\ wk[j].pc = "done"
         /\ wk[i].tok = wk[j].tok
         /\ wk[i].active0 /\ wk[j].active0
         /\ wk[i].conc /\ wk[j].conc
         /\ ValidateRefreshToken(wk[i].tok, now))
            => \/ wk[i].res.err = "ok" /\ wk[j].res.err = RevokedOrExpired
               \/ wk[j].res.err = "ok" /\ wk[i].res.err = RevokedOrExpired

\* C3: after a successful Login or Google login of identity X, exactly one
\* session row owned by X has expiry > now
C3_SingleActiveSession ==
    (last.op \in {"Login", "GoogleAuth"} /\ last.err = "ok" /\ JustNow)
        => Cardinality(ActiveRows(last.uid)) = 1

\* C4: after a successful Login of identity X, every refresh token returned
\* to X by an earlier request fails Refresh
C4_LoginInvalidatesEarlierTokens ==
    (last.op = "Login" /\ last.err = "ok")
        => \A rt \in issued : rt.UserID = last.uid => RefreshNow(rt).err # "ok"

\* C5: right after a successful Register the session store holds an active
\* row with the returned refresh token, owned by the new identity, and a
\* Refresh with that token succeeds
C5_RegisterPersistsSession ==
    (last.op = "Register" /\ last.err = "ok" /\ JustNow)
        => /\ \E r \in tokens : /\ r.RefreshToken = last.refresh
                                /\ r.UserID = last.uid
                                /\ r.ExpiresAt > now
           /\ RefreshNow(last.refresh).err = "ok"

\* C6: no refresh token issued validates as an access token and no access
\* token issued validates as a refresh token; RequireAuth does not admit a
\* bearer that is a refresh token and Refresh rejects an access token
C6_TokenKindIsolation ==
    /\ \A rt \in Held :
          /\ ~ValidateAccessToken(rt, now)
          /\ ~RequireAuth(rt, now)
          /\ ~ValidateRefreshToken(AccessOf(rt), now)
          /\ RefreshNow(AccessOf(rt)).err = "invalid refresh token"
    /\ last.access # NoToken => ~ValidateRefreshToken(last.access, now)
    /\ (last.op = "Refresh" /\ last.tok.TokenType # TokenTypeRefresh)
          => last.err = "invalid refresh token"

\* a valid access token was presented to Refresh and rejected
C6_Witness ==
    /\ last.op = "Refresh"
    /\ last.tok.TokenType = TokenTypeAccess
    /\ ValidateAccessToken(last.tok, now)
    /\ last.err = "invalid refresh token"

\* C7: a Register whose email, lowercased, is the email of an existing
\* identity fails with the "email already exists" conflict and creates no
\* identity, whatever the casing of the request
C7_DuplicateEmailAnyCase ==
    \A email \in EmailInputs, password \in RegisterPasswords :
        (\E u \in users : u.Email = ToLower(email))
            => LET r == RegisterExecute(users, tokens, nextID, now,
                            [Email |-> email, Password |-> password], {})
               IN  /\ r.resp.err = "email already exists"
                   /\ RegisterErrorCode(r.resp.err) = "EMAIL_EXISTS"
                   /\ r.users = users

\* an identity that has a password and was linked to Google by a merge
Merged(u) == u.Password # NullPassword /\ u.Provider = ProviderGoogle

\* C8: a LOCAL identity with a password that was merged by a Google login
\* can log in with its email and password and by Google login
C8_MergedIdentityBothPaths ==
    \A u \in users :
        Merged(u)
            => /\ LoginExecute(users, tokens, now,
                      [Email |-> u.Email, Password |-> u.Password.of], {}).resp.err = "ok"
               /\ GoogleAuthExecute(users, tokens, nextID, now,
                      GoogleUserInfo(u.ProviderID, u.Email, "", TRUE),
                      {}).resp.err = "ok"

\* C9: a Google login that finds no identity by (provider, external ID) but
\* finds one of another provider by email creates no identity, keeps that
\* identity's ID, password hash and role, sets its provider, external ID and
\* emailVerified, and leaves the other identities alone
C9_MergeFrame ==
    \A gid \in GoogleIDs, email \in EmailInputs,
       flt \in FaultSets({"Create", "RevokeAllUserTokens", "TokenCreate"}) :
        LET old == FindByEmail(users, email)
            r == GoogleAuthExecute(users, tokens, nextID, now,
                     GoogleUserInfo(gid, email, "", TRUE), flt)
            new == FindByID(r.users, old.ID)
        IN  (/\ FindByProviderID(users, ProviderGoogle, gid) = NoUser
             /\ old # NoUser
             /\ old.Provider # ProviderGoogle)
                => /\ Cardinality(r.users) = Cardinality(users)
                   /\ r.users \ {new} = users \ {old}
                   /\ new.Password = old.Password
                   /\ new.Role = old.Role
                   /\ new.Email = old.Email
                   /\ new.Provider = ProviderGoogle
                   /\ new.ProviderID = gid
                   /\ new.EmailVerified

\* a Google login has just merged into the only identity, which had a password
C9_Witness ==
    /\ last.op = "GoogleAuth"
    /\ last.err = "ok"
    /\ Cardinality(users) = 1
    /\ \E u \in users : u.ID = last.uid /\ Merged(u) /\ u.EmailVerified

\* C10: a Login that fails on the credentials (unknown email, identity
\* without password, password mismatch) leaves the session store unchanged
C10_FailedLoginKeepsSessions ==
    [][(/\ nreq' = nreq + 1
        /\ last'.op = "Login"
        /\ last'.err \in {"invalid credentials",
                          "please use OAuth login for this account"})
           => tokens' = tokens]_vars

\* a Login has just been refused while a session is active
C10_Witness ==
    /\ last.op = "Login"
    /\ last.err = "invalid credentials"
    /\ \E r \in tokens : r.ExpiresAt > now

\* C11: Login answers InvalidCredentials when no identity has the email, when
\* the identity is a federated account without a password and when the
\* password does not match, with the same visible error in the three cases
C11_UniformInvalidCredentials ==
    \A email \in EmailInputs, password \in PasswordInputs :
        LET user == FindByEmail(users, email)
            r == LoginExecute(users, tokens, now,
                     [Email |-> email, Password |-> password], {})
        IN  (\/ user = NoUser
             \/ user.Password = NullPassword
             \/ ~VerifyPassword(password, user.Password))
                => /\ r.resp.err = "invalid credentials"
                   /\ LoginErrorCode(r.resp.err) = "INVALID_CREDENTIALS"

\* C12: a Google login whose email the provider has not verified is refused
\* with "email is not verified" whatever the stores hold and whichever store
\* call would fail, and changes neither table
C12_UnverifiedEmailRejected ==
    \A gid \in GoogleIDs, email \in EmailInputs,
       flt \in FaultSets({"FindByProviderID", "FindByEmail", "Update", "Create",
                          "RevokeAllUserTokens", "TokenCreate"}) :
        LET r == GoogleAuthExecute(users, tokens, nextID, now,
                     GoogleUserInfo(gid, email, "", FALSE), flt)
        IN  /\ r.resp.err = "email is not verified"
            /\ r.resp.access = NoToken /\ r.resp.refresh = NoToken
            /\ r.users = users
            /\ r.tokens = tokens

\* an unverified Google login has just been refused for the email of an
\* identity that has an active session
C12_Witness ==
    /\ last.op = "GoogleAuth"
    /\ last.err = "email is not verified"
    /\ users # {}
    /\ \E r \in tokens : r.ExpiresAt > now

\* C14: Logout succeeds whether or not a session with the token exists, a
\* second Logout of the same token leaves the session store as the first one
\* left it, and a Refresh with the token right after the Logout fails
C14_LogoutIdempotent ==
    \A tok \in TokenInputs :
        LET r1 == LogoutExecute(users, tokens, tok, {})
            r2 == LogoutExecute(r1.users, r1.tokens, tok, {})
        IN  /\ r1.resp.err = "ok"
            /\ r2.resp.err = "ok"
            /\ r2.tokens = r1.tokens
            /\ r1.users = users
            /\ \A r \in r1.tokens : r.RefreshToken # tok
            /\ RefreshExecute(r1.users, r1.tokens, now, tok, {}).resp.err
                   \in {"invalid refresh token", RevokedOrExpired}

\* a Logout has just deleted the session of a refresh token that is still
\* valid as a token
C14_Witness ==
    /\ last.op = "Logout"
    /\ last.err = "ok"
    /\ ValidateRefreshToken(last.tok, now)
    /\ last.tok \in issued
    /\ ~IsTokenValid(tokens, last.tok, now)
    /\ \E u \in users : u.ID = last.tok.UserID /\ u.Password = NullPassword

\* C15: after LogoutAll of an identity no session row of that identity has
\* expiry > now, however many were active; LogoutAll succeeds for an identity
\* without sessions, and a second LogoutAll changes nothing
C15_LogoutAllRevokesAll ==
    \A userID \in 1..MaxUsers :
        LET r1 == LogoutAllExecute(users, tokens, now, userID, {})
            r2 == LogoutAllExecute(r1.users, r1.tokens, now, userID, {})
        IN  /\ r1.resp.err = "ok"
            /\ {r \in r1.tokens : r.UserID = userID /\ r.ExpiresAt > now} = {}
            /\ {r \in r1.tokens : r.UserID # userID}
                   = {r \in tokens : r.UserID # userID}
            /\ Cardinality(r1.tokens) = Cardinality(tokens)
            /\ r2.resp.err = "ok"
            /\ r2.tokens = r1.tokens

\* a LogoutAll has just revoked two sessions of one identity
C15_Witness ==
    /\ last.op = "LogoutAll"
    /\ last.err = "ok"
    /\ Cardinality({r \in tokens : r.UserID = last.uid}) >= 2
    /\ ActiveRows(last.uid) = {}

\* C19: a Register whose password is shorter than 8 or longer than 128
\* characters is refused as a validation error whatever the stores hold and
\* whichever store call would fail (no store is consulted), and creates no
\* identity
C19_PasswordLengthRejectedFirst ==
    \A email \in EmailInputs, password \in BadPasswords,
       flt \in FaultSets({"EmailExists", "Create"}) :
        LET r == RegisterHandler(users, tokens, nextID, now,
                     [Email |-> email, Password |-> password], flt)
        IN  /\ ~ValidatePassword(password)
            /\ r.resp.err \in {"INVALID_REQUEST", "failed to hash password"}
            /\ r.users = users

\* C20: a Login or Google login during which RevokeAllUserTokens fails
\* returns an error, returns no tokens and stores no session
C20_RevokeFailureAborts ==
    /\ \A email \in EmailInputs, password \in PasswordInputs :
          LET r == LoginExecute(users, tokens, now,
                       [Email |-> email, Password |-> password],
                       {"RevokeAllUserTokens"})
          IN  /\ r.resp.err # "ok"
              /\ r.resp.refresh = NoToken
              /\ r.tokens = tokens
    /\ \A gid \in GoogleIDs, email \in EmailInputs :
          LET r == GoogleAuthExecute(users, tokens, nextID, now,
                       GoogleUserInfo(gid, email, "", TRUE),
                       {"RevokeAllUserTokens"})
          IN  /\ r.resp.err # "ok"
              /\ r.resp.refresh = NoToken
              /\ r.tokens = tokens

\* C13: a Refresh with a valid refresh token that has an active session row
\* but whose identity has been deleted fails with "user not found", returns
\* no tokens and leaves the session store as it was; no refresh token of a
\* deleted identity is redeemable
C13_DeletedIdentityCannotRefresh ==
    \A tok \in Held :
        LET r == RefreshExecute(users, tokens, now, tok, {})
        IN  FindByID(users, tok.UserID) = NoUser
                => /\ r.resp.err # "ok"
                   /\ r.resp.access = NoToken /\ r.resp.refresh = NoToken
                   /\ r.tokens = tokens
                   /\ (ValidateRefreshToken(tok, now) /\ IsTokenValid(tokens, tok, now))
                          => r.resp.err = "user not found"

\* a Refresh has just been refused because the identity of its token, which
\* still has an active session row, was deleted
C13_Witness ==
    /\ last.op = "Refresh"
    /\ last.err = "user not found"
    /\ IsTokenValid(tokens, last.tok, now)
    /\ FindByID(users, last.tok.UserID) = NoUser

\* C16: an access token that was issued and has not expired is admitted by
\* RequireAuth, and by RequireAdmin when its role claim is ADMIN, whatever the
\* users and tokens tables hold
C16_AccessTokensStateless ==
    \A rt \in Held :
        LET at == AccessOf(rt)
        IN  (at.NotBefore <= now /\ now < at.ExpiresAt)
                => /\ RequireAuth(at, now)
                   /\ at.Role = RoleAdmin => AdminGate(at, now) = "next"
                   /\ at.Role = RoleUser => AdminGate(at, now) = "INSUFFICIENT_PERMISSIONS"

\* an admin operation has just run for the access token of an identity that
\* is deleted or no longer ADMIN, and whose sessions are all gone or revoked
C16_Witness ==
    /\ last.op \in AdminOps
    /\ last.err = "ok"
    /\ RequireAuth(last.tok, now)
    /\ ~IsAdmin(FindByID(users, last.tok.UserID))
    /\ ActiveRows(last.tok.UserID) = {}

\* C17: an admin operation runs only for a bearer that RequireAuth admits as
\* an access token and whose role claim is ADMIN; a request stopped by the
\* middleware (401 without or with an invalid token, 403 with another role)
\* changes nothing
C17_AdminOpsGated ==
    [][nreq' = nreq + 1
          => /\ last'.op \in AdminOps
                  => /\ ValidateAccessToken(last'.tok, now)
                     /\ last'.tok.Role = RoleAdmin
             /\ last'.op = "AdminGate"
                  => /\ last'.err \in {"MISSING_TOKEN", "INVALID_TOKEN",
                                        "INSUFFICIENT_PERMISSIONS"}
                     /\ users' = users
                     /\ tokens' = tokens]_vars

\* a request with a valid access token of role USER has just been answered 403
\* while an administrator's access token is valid, too
C17_Witness ==
    /\ last.op = "AdminGate"
    /\ last.err = "INSUFFICIENT_PERMISSIONS"
    /\ \E rt \in Held : AdminGate(AccessOf(rt), now) = "next"

\* C18: Promote of an ADMIN fails with "user is already an admin" and Demote of
\* a non-ADMIN with "user is not an admin", leaving the users table unchanged;
\* a successful Promote or Demote changes only the role of its target; every
\* stored role is USER or ADMIN
C18_PromoteDemote ==
    /\ \A u \in users : u.Role \in {RoleUser, RoleAdmin}
    /\ \A u \in users :
          LET p == PromoteUserExecute(users, tokens, u.ID, {})
              d == DemoteUserExecute(users, tokens, u.ID, {})
          IN  /\ p.tokens = tokens /\ d.tokens = tokens
              /\ IsAdmin(u)
                    => /\ p.resp.err = "user is already an admin"
                       /\ PromoteErrorCode(p.resp.err) = "USER_ALREADY_ADMIN"
                       /\ p.users = users
                       /\ d.resp.err = "ok"
                       /\ d.users = (users \ {u}) \cup {[u EXCEPT !.Role = RoleUser]}
              /\ ~IsAdmin(u)
                    => /\ d.resp.err = "user is not an admin"
                       /\ DemoteErrorCode(d.resp.err) = "USER_NOT_ADMIN"
                       /\ d.users = users
                       /\ p.resp.err = "ok"
                       /\ p.users = (users \ {u}) \cup {[u EXCEPT !.Role = RoleAdmin]}

\* a Promote of an administrator has just been refused
C18_Witness ==
    /\ last.op = "PromoteUser"
    /\ last.err = "user is already an admin"
    /\ IsAdmin(FindByID(users, last.uid))

\* C21: a Refresh either succeeds, with the returned refresh token stored as an
\* active session, or fails and leaves the session store as it was, whichever
\* store call of the request fails
C21_RefreshAtomic ==
    \A tok \in Held :
      \A flt \in FaultSets({"IsTokenValid", "FindByID", "DeleteByRefreshToken", "Create"}) :
        LET r == RefreshExecute(users, tokens, now, tok, flt)
        IN  IF r.resp.err = "ok"
            THEN IsTokenValid(r.tokens, r.resp.refresh, now)
            ELSE r.tokens = tokens

\* the stored identity whose email is the normalized form of email, or NoUser
ByNormalizedEmail(email) == FindByEmail(users, ToLower(TrimSpace(email)))

\* C22: a Google login resolves to the identity with the Google account ID if
\* there is one, unmodified; otherwise to the identity with the (normalized)
\* email; otherwise to exactly one new identity with role USER, verified
\* email, no password, provider GOOGLE and the account ID; the tokens of a
\* successful login carry the ID of the resolved identity
C22_FederatedResolutionOrder ==
    \A gid \in GoogleIDs, email \in EmailInputs, avatar \in GoogleAvatars :
        LET g       == GoogleUserInfo(gid, email, avatar, TRUE)
            byID    == FindByProviderID(users, ProviderGoogle, gid)
            byEmail == ByNormalizedEmail(email)
            res     == GoogleResolve(users, nextID, now, g, {})
            r       == GoogleAuthExecute(users, tokens, nextID, now, g, {})
        IN  /\ res.err = "ok"
            /\ IF byID # NoUser
               THEN res.user = byID /\ res.users = users
               ELSE IF byEmail # NoUser
               THEN /\ res.user.ID = byEmail.ID
                    /\ {u.ID : u \in res.users} = {u.ID : u \in users}
               ELSE /\ res.users = users \cup {res.user}
                    /\ res.user \notin users
                    /\ res.user.ID = nextID
                    /\ res.user.Role = RoleUser
                    /\ res.user.EmailVerified
                    /\ res.user.Password = NullPassword
                    /\ res.user.Provider = ProviderGoogle
                    /\ res.user.ProviderID = gid
            /\ r.resp.err = "ok"
                  => /\ r.resp.uid = res.user.ID
                     /\ r.resp.access.UserID = res.user.ID
                     /\ r.resp.refresh.UserID = res.user.ID
                     /\ r.users = res.users

\* C24: a Google login whose email differs only in letter case from the email
\* of a stored identity, and whose account ID is not attached to any identity,
\* resolves to that identity and creates no other
C24_FederatedEmailNormalized ==
    \A gid \in GoogleIDs, email \in EmailInputs :
        LET res == GoogleResolve(users, nextID, now,
                                 GoogleUserInfo(gid, email, "", TRUE), {})
        IN  (/\ FindByProviderID(users, ProviderGoogle, gid) = NoUser
             /\ ByNormalizedEmail(email) # NoUser)
                => /\ res.err = "ok"
                   /\ res.user.ID = ByNormalizedEmail(email).ID
                   /\ Cardinality(res.users) = Cardinality(users)

\* C23: a Google login that merges into an identity which already has an
\* avatar leaves that avatar as it is, whatever picture the Google profile has
C23_MergeKeepsAvatar ==
    \A gid \in GoogleIDs, avatar \in GoogleAvatars :
      \A u \in users :
        LET res == GoogleResolve(users, nextID, now,
                                 GoogleUserInfo(gid, u.Email, avatar, TRUE), {})
        IN  (/\ FindByProviderID(users, ProviderGoogle, gid) = NoUser
             /\ u.Provider # ProviderGoogle
             /\ u.Avatar # NULL)
                => /\ res.err = "ok"
                   /\ res.user.ID = u.ID
                   /\ FindByID(res.users, u.ID).Avatar = u.Avatar

\* C26: every stored identity with provider LOCAL has a password hash that is
\* not empty, and every stored identity with another provider has a provider
\* ID that is not empty
C26_ProviderCredentialInvariant ==
    \A u \in users :
        /\ u.Provider = ProviderLocal => u.Password # NullPassword /\ u.Password.of # ""
        /\ u.Provider # ProviderLocal => u.ProviderID # NULL /\ u.ProviderID # ""

\* the session rows as (owner, token) pairs, expiry aside
RowKeys(ts) == {<<r.UserID, r.RefreshToken>> : r \in ts}

\* C25: revoking the sessions of an identity keeps every row: the rows of the
\* identity stay, each with an expiry before now, and the rows of the other
\* identities are untouched.  A request of Login, Google login or LogoutAll
\* removes no row, and the rows it changes belong to one identity and are
\* expired afterwards; a row disappears only in a Logout or a Refresh
C25_RevocationKeepsRows ==
    [][/\ \A userID \in 1..MaxUsers :
            LET ts1 == RevokeAllUserTokens(tokens, userID, now)
            IN  /\ RowKeys(ts1) = RowKeys(tokens)
                /\ Cardinality(ts1) = Cardinality(tokens)
                /\ \A r \in ts1 : IF r.UserID = userID THEN r.ExpiresAt < now
                                  ELSE r \in tokens
       /\ nreq' = nreq + 1
            => /\ ~(RowKeys(tokens) \subseteq RowKeys(tokens'))
                    => last'.op \in {"Logout", "Refresh"}
               /\ last'.op \in {"Login", "GoogleAuth", "LogoutAll"}
                    => /\ \A r \in tokens' \ tokens :
                             \/ r.ExpiresAt < now
                             \/ last'.err = "ok" /\ r.RefreshToken = last'.refresh
                       /\ \A r, q \in tokens \ tokens' : r.UserID = q.UserID
                       /\ last'.err = "ok"
                             => \A r \in tokens \ tokens' : r.UserID = last'.uid
               /\ (last'.op = "LogoutAll" /\ last'.err = "ok")
                    => \A r \in tokens' : r.UserID = last'.uid => r.ExpiresAt < now]_vars

\* a LogoutAll has just revoked the sessions of an identity: its rows are
\* still stored, all expired, while another identity has an active session
C25_Witness ==
    /\ last.op = "LogoutAll"
    /\ last.err = "ok"
    /\ \E r \in tokens : r.UserID = last.uid
    /\ ActiveRows(last.uid) = {}
    /\ \E r \in tokens : r.UserID # last.uid /\ r.ExpiresAt > now

\* C27: the refresh token returned by a successful Register, Login, Google
\* login or Refresh differs from every refresh token returned before, and a
\* Login with correct credentials does not fail on storing its refresh token
\* when no store call fails
C27_RefreshTokensDistinct ==
    [][/\ \A email \in EmailInputs, password \in PasswordInputs :
            LoginExecute(users, tokens, now, [Email |-> email, Password |-> password],
                         {}).resp.err # "failed to store refresh token"
       /\ (nreq' = nreq + 1 /\ last'.refresh # NoToken) => last'.refresh \notin Held]_vars

\* the session rows that identity userID does not own
RowsOfOthers(ts, userID) == {r \in ts : r.UserID # userID}

\* C28: a Login, a Google login, a Refresh with a token of identity X, a
\* LogoutAll of X and a Logout requested with an access token of X leave
\* every session row of the other identities as it was
C28_SessionOpsOwnRowsOnly ==
    /\ \A email \in EmailInputs, password \in PasswordInputs :
          LET X == FindByEmail(users, email).ID
              r == LoginExecute(users, tokens, now,
                                [Email |-> email, Password |-> password], {})
          IN  RowsOfOthers(r.tokens, X) = RowsOfOthers(tokens, X)
    /\ \A gid \in GoogleIDs, email \in EmailInputs :
          LET g == GoogleUserInfo(gid, email, "", TRUE)
              X == GoogleResolve(users, nextID, now, g, {}).user.ID
              r == GoogleAuthExecute(users, tokens, nextID, now, g, {})
          IN  RowsOfOthers(r.tokens, X) = RowsOfOthers(tokens, X)
    /\ \A tok \in Held :
          LET r == RefreshExecute(users, tokens, now, tok, {})
          IN  RowsOfOthers(r.tokens, tok.UserID) = RowsOfOthers(tokens, tok.UserID)
    /\ \A X \in 1..MaxUsers :
          LET r == LogoutAllExecute(users, tokens, now, X, {})
          IN  RowsOfOthers(r.tokens, X) = RowsOfOthers(tokens, X)
    /\ \A rt \in Held, tok \in Held :
          LET bearer == AccessOf(rt)
              r == LogoutHandler(users, tokens, now, bearer, tok, {})
          IN  RowsOfOthers(r.tokens, bearer.UserID) = RowsOfOthers(tokens, bearer.UserID)

\* C29: the access and refresh tokens of a successful Refresh carry the email
\* and the role the identity has in the users table at that moment, whatever
\* the claims of the presented token
C29_RefreshUsesStoredRole ==
    /\ \A tok \in Held :
          LET r == RefreshExecute(users, tokens, now, tok, {})
              u == FindByID(users, tok.UserID)
          IN  r.resp.err = "ok"
                 => /\ r.resp.access.Role = u.Role
                    /\ r.resp.access.Email = u.Email
                    /\ r.resp.refresh.Role = u.Role
                    /\ r.resp.refresh.Email = u.Email
                    /\ r.resp.access.UserID = u.ID
    /\ (last.op = "Refresh" /\ last.err = "ok")
          => /\ last.access.Role = last.refresh.Role
             /\ FindByID(users, last.uid) # NoUser
                   => last.access.Role = FindByID(users, last.uid).Role

\* a Refresh has just succeeded with a token whose role claim is no longer the
\* role of the identity, and the new access token has the stored role
C29_Witness ==
    /\ last.op = "Refresh"
    /\ last.err = "ok"
    /\ last.tok.Role # last.access.Role
    /\ last.access.Role = FindByID(users, last.uid).Role

\* C30: when a Promote or Demote of an identity and an UpdateProfile or a
\* Google merge of the same identity have both completed successfully, the
\* stored identity has the role the first wrote and the avatar, provider and
\* provider ID the second wrote
C30_NoLostIdentityUpdate ==
    \A i, j \in Workers :
        (/\ wk[i].pc = "done" /\ wk[j].pc = "done"
         /\ wk[i].res.op \in {"PromoteUser", "DemoteUser"} /\ wk[i].res.err = "ok"
         /\ wk[j].res.op \in {"UpdateMe", "GoogleAuth"} /\ wk[j].res.err = "ok"
         /\ wk[j].res.uid = wk[i].res.uid)
            => LET u == FindByID(users, wk[i].res.uid)
               IN  /\ u.Role = wk[i].user.Role
                   /\ u.Avatar = wk[j].user.Avatar
                   /\ u.Provider = wk[j].user.Provider
                   /\ u.ProviderID = wk[j].user.ProviderID

====
